---- MODULE Spec2Model ----
(***************************************************************************)
(* Model of light_curves/code_src/heasarc_functions.py,                    *)
(* HEASARC_get_lightcurves(source_table, heasarc_cat, max_error_radius).   *)
(*                                                                         *)
(* The function is straight-line code around one loop; every remote call   *)
(* (registry lookup, synchronous TAP query) is a step of its own so that   *)
(* the order of calls and the point of failure are visible.                *)
(*                                                                         *)
(* Numbers: angles are whole degrees on a flat patch of sky, flux and err  *)
(* are kept in tenths (1 stands for 0.1).  Loop index m is 0-based as in   *)
(* the Python code; TLA+ sequences are 1-based, hence the m + 1.           *)
(***************************************************************************)
EXTENDS Integers, Sequences, FiniteSets, TLC

\* ------------------------------------------------------------------ bounds
MaxCats == 3

\* --------------------------------------------------------------- constants
\* np.full(len(hresulttable), 0.1), in tenths
SentinelTenths == 1

\* ------------------------------------------------------- the environment
\* Catalog names a caller may pass; "NOCAT" is not a table of the service.
Names == {"CAT1", "CAT2", "NOCAT"}
Cutoffs == {2, 3}

Target1 == [object_id |-> 1, label |-> "A", coord |-> [ra |-> 2, dec |-> 0]]
Target2 == [object_id |-> 2, label |-> "B", coord |-> [ra |-> 4, dec |-> 0]]
SourceTables == {<<Target1, Target2>>, <<Target2>>}

\* Contents of the remote catalogs (rows name, ra, dec, error_radius, time).
Catalog(n) ==
    IF n = "CAT1" THEN
        << [name |-> "g1", ra |-> 2, dec |-> 0, error_radius |-> 1, time |-> 100],
           [name |-> "g2", ra |-> 2, dec |-> 0, error_radius |-> 1, time |-> 200],
           [name |-> "g3", ra |-> 2, dec |-> 1, error_radius |-> 2, time |-> 300],
           [name |-> "g4", ra |-> 8, dec |-> 0, error_radius |-> 1, time |-> 900] >>
    ELSE IF n = "CAT2" THEN
        << [name |-> "s1", ra |-> 5, dec |-> 0, error_radius |-> 2, time |-> 100],
           [name |-> "s2", ra |-> 3, dec |-> 0, error_radius |-> 2, time |-> 400],
           [name |-> "s3", ra |-> 4, dec |-> 1, error_radius |-> 2, time |-> 400] >>
    ELSE << >>

KnownCatalog(n) == n \in {"CAT1", "CAT2"}

SeqsUpTo(S, n) == UNION {[1..k -> S] : k \in 0..n}

\* ------------------------------------------------------------ pure parts

\* upload_table = source_table['object_id', 'label'] (a new table holding
\* copies of the two columns), then the ra and dec columns are added to it.
ProjectTableSwapped(tbl) ==
    [j \in 1..Len(tbl) |->
        [object_id |-> tbl[j].object_id, label |-> tbl[j].label,
         ra |-> tbl[j].coord.dec, dec |-> tbl[j].coord.ra]]

ProjectTable(tbl) ==
    [j \in 1..Len(tbl) |->
        [object_id |-> tbl[j].object_id, label |-> tbl[j].label,
         ra |-> tbl[j].coord.ra, dec |-> tbl[j].coord.dec]]

\* CONTAINS(POINT('ICRS',mt.ra,mt.dec),CIRCLE('ICRS',cat.ra,cat.dec,cat.error_radius))=1
Contains(mt, cat) ==
    (mt.ra - cat.ra) * (mt.ra - cat.ra) + (mt.dec - cat.dec) * (mt.dec - cat.dec)
        <= cat.error_radius * cat.error_radius

\* the WHERE clause of hquery
WhereInclusive(cat, mt, cutoff) ==
    cat.error_radius <= cutoff /\ Contains(mt, cat)

Where(cat, mt, cutoff) ==
    cat.error_radius < cutoff /\ Contains(mt, cat)

\* the f-string: catalog and cutoff of the same index m, plus the upload
BuildQuery(cats, radii, m, upload) ==
    [m |-> m, cat |-> cats[m + 1], cutoff |-> radii[m + 1], upload |-> upload]

\* FROM cat, tap_upload.mytable mt: every pair, catalog-major order
CrossJoin(cs, ts) ==
    [k \in 1..(Len(cs) * Len(ts)) |->
        [cat |-> cs[((k - 1) \div Len(ts)) + 1], mt |-> ts[((k - 1) % Len(ts)) + 1]]]

\* SELECT cat.name, cat.ra, cat.dec, cat.error_radius, cat.time, mt.object_ID, mt.label
SelectColumns(pairs) ==
    [k \in 1..Len(pairs) |->
        [name |-> pairs[k].cat.name, ra |-> pairs[k].cat.ra, dec |-> pairs[k].cat.dec,
         error_radius |-> pairs[k].cat.error_radius, time |-> pairs[k].cat.time,
         object_id |-> pairs[k].mt.object_id, label |-> pairs[k].mt.label]]

Reverse(s) == [k \in 1..Len(s) |-> s[Len(s) + 1 - k]]

\* what the service answers to a query; the query has no ORDER BY, so the
\* service may hand the rows back in either direction
RunSync(q, order) ==
    LET rows == SelectColumns(SelectSeq(CrossJoin(Catalog(q.cat), q.upload),
                                        LAMBDA p : Where(p.cat, p.mt, q.cutoff)))
    IN  IF order = "fwd" THEN rows ELSE Reverse(rows)

\* pd.DataFrame(dict(flux=..., err=..., time=..., object_id=..., band=..., label=...))
\*   .set_index(["object_id", "label", "band", "time"])
MakeBatchFirstBand(tbl, cats, m) ==
    [j \in 1..Len(tbl) |->
        [flux |-> SentinelTenths, err |-> SentinelTenths, time |-> tbl[j].time,
         object_id |-> tbl[j].object_id, band |-> cats[1], label |-> tbl[j].label]]

MakeBatchPlaceholder(tbl, cats, m) ==
    IF tbl = << >>
    THEN << [flux |-> SentinelTenths, err |-> SentinelTenths, time |-> 0,
             object_id |-> 0, band |-> cats[m + 1], label |-> ""] >>
    ELSE [j \in 1..Len(tbl) |->
            [flux |-> SentinelTenths, err |-> SentinelTenths, time |-> tbl[j].time,
             object_id |-> tbl[j].object_id, band |-> cats[m + 1], label |-> tbl[j].label]]

MakeBatchFluxByIndex(tbl, cats, m) ==
    [j \in 1..Len(tbl) |->
        [flux |-> SentinelTenths + m, err |-> SentinelTenths, time |-> tbl[j].time,
         object_id |-> tbl[j].object_id, band |-> cats[m + 1], label |-> tbl[j].label]]

MakeBatchFirstHitOnly(tbl, cats, m) ==
    [j \in 1..(IF Len(tbl) > 1 THEN 1 ELSE Len(tbl)) |->
        [flux |-> SentinelTenths, err |-> SentinelTenths, time |-> tbl[j].time,
         object_id |-> tbl[j].object_id, band |-> cats[m + 1], label |-> tbl[j].label]]

MakeBatch(tbl, cats, m) ==
    [j \in 1..Len(tbl) |->
        [flux |-> SentinelTenths, err |-> SentinelTenths, time |-> tbl[j].time,
         object_id |-> tbl[j].object_id, band |-> cats[m + 1], label |-> tbl[j].label]]

\* the index of a row of the accumulator
Key(r) == <<r.object_id, r.label, r.band, r.time>>

RECURSIVE DedupLast(_)
DedupLast(s) ==
    IF s = << >> THEN << >>
    ELSE LET h == Head(s)
             t == Tail(s)
         IN  IF \E k \in 1..Len(t) : Key(t[k]) = Key(h)
             THEN DedupLast(t)
             ELSE <<h>> \o DedupLast(t)

\* MultiIndexDFObject.append: rows are unique per key, the last appended wins
appendConcat(acc, batch) == acc \o batch

append(acc, batch) == DedupLast(acc \o batch)

\* for m in range(len(heasarc_cat))
NextIndexStuck(m) == m

NextIndex(m) == m + 1

\* run_sync is called outside any try block: its exception leaves the function
PcAfterQueryErrorSwallowed == "loop"

PcAfterQueryError == "failed"

\* --------------------------------------------------------------- the state
VARIABLES
    source_table,       \* argument: the caller's table of targets
    heasarc_cat,        \* argument: list of catalog names
    max_error_radius,   \* argument: list of cutoffs
    upload_table,       \* local: the projected table
    df_lc,              \* local: the accumulator (rows in index order)
    m,                  \* loop variable
    hresulttable,       \* local: the result table of the last query
    pc,                 \* position in the function
    inflight,           \* queries sent to the service and not yet answered
    raised,             \* exception leaving the function, "none" if none
    returned,           \* << >> or <<value>>: what the caller got back
    queries,            \* history: every query sent, in order
    results,            \* history: every result table received, in order
    appended,           \* history: every batch handed to df_lc.append, in order
    netCalls,           \* history: number of remote calls started
    projections         \* history: number of times the projection was computed

vars == <<source_table, heasarc_cat, max_error_radius, upload_table, df_lc, m,
          hresulttable, pc, inflight, raised, returned, queries, results,
          appended, netCalls, projections>>

args == <<source_table, heasarc_cat, max_error_radius>>
hist == <<queries, results, appended, netCalls, projections>>

Init ==
    /\ source_table \in SourceTables
    /\ heasarc_cat \in SeqsUpTo(Names, MaxCats)
    /\ max_error_radius \in SeqsUpTo(Cutoffs, MaxCats)
    /\ upload_table = << >>
    /\ df_lc = << >>
    /\ m = 0
    /\ hresulttable = << >>
    /\ pc = "start"
    /\ inflight = << >>
    /\ raised = "none"
    /\ returned = << >>
    /\ queries = << >>
    /\ results = << >>
    /\ appended = << >>
    /\ netCalls = 0
    /\ projections = 0

\* lines 83-85
Project ==
    /\ pc = "start"
    /\ upload_table' = ProjectTable(source_table)
    /\ projections' = projections + 1
    /\ pc' = "setup"
    /\ UNCHANGED <<args, df_lc, m, hresulttable, inflight, raised, returned,
                   queries, results, appended, netCalls>>

\* line 88
NewAccumulator ==
    /\ pc = "setup"
    /\ df_lc' = << >>
    /\ pc' = "regsearch"
    /\ UNCHANGED <<args, upload_table, m, hresulttable, inflight, raised,
                   returned, hist>>

\* line 91, the registry answers
RegsearchOk ==
    /\ pc = "regsearch"
    /\ netCalls' = netCalls + 1
    /\ m' = 0
    /\ pc' = "loop"
    /\ UNCHANGED <<args, upload_table, df_lc, hresulttable, inflight, raised,
                   returned, queries, results, appended, projections>>

\* line 91, the registry lookup fails
RegsearchFail ==
    /\ pc = "regsearch"
    /\ netCalls' = netCalls + 1
    /\ raised' = "RemoteFailure"
    /\ pc' = "failed"
    /\ UNCHANGED <<args, upload_table, df_lc, m, hresulttable, inflight,
                   returned, queries, results, appended, projections>>

\* lines 94-105: next iteration, the query text is built and sent
IssueQuery ==
    /\ pc = "loop"
    /\ m < Len(heasarc_cat)
    /\ m < Len(max_error_radius)
    /\ LET q == BuildQuery(heasarc_cat, max_error_radius, m, upload_table)
       IN  /\ inflight' = inflight \o <<q>>
           /\ queries' = queries \o <<q>>
    /\ netCalls' = netCalls + 1
    /\ pc' = "waiting"
    /\ UNCHANGED <<args, upload_table, df_lc, m, hresulttable, raised,
                   returned, results, appended, projections>>

\* line 101: max_error_radius[m] with m past the end of the list
CutoffIndexError ==
    /\ pc = "loop"
    /\ m < Len(heasarc_cat)
    /\ m >= Len(max_error_radius)
    /\ raised' = "IndexError"
    /\ pc' = "failed"
    /\ UNCHANGED <<args, upload_table, df_lc, m, hresulttable, inflight,
                   returned, hist>>

\* line 105: run_sync returns
QueryReturn ==
    /\ pc = "waiting"
    /\ inflight # << >>
    /\ KnownCatalog(Head(inflight).cat)
    /\ \E order \in {"fwd", "rev"} :
          /\ hresulttable' = RunSync(Head(inflight), order)
          /\ results' = results \o <<RunSync(Head(inflight), order)>>
    /\ inflight' = Tail(inflight)
    /\ pc' = "reshape"
    /\ UNCHANGED <<args, upload_table, df_lc, m, raised, returned, queries,
                   appended, netCalls, projections>>

\* line 105: run_sync raises (network error, unknown catalog, service error)
QueryFail ==
    /\ pc = "waiting"
    /\ inflight # << >>
    /\ inflight' = Tail(inflight)
    /\ raised' = "RemoteFailure"
    /\ pc' = PcAfterQueryError
    /\ UNCHANGED <<args, upload_table, df_lc, m, hresulttable, returned, hist>>

\* lines 109-120: reshape the result and append it; the loop moves on
ReshapeAppend ==
    /\ pc = "reshape"
    /\ LET df_heasarc == MakeBatch(hresulttable, heasarc_cat, m)
       IN  /\ df_lc' = append(df_lc, df_heasarc)
           /\ appended' = appended \o <<df_heasarc>>
    /\ m' = NextIndex(m)
    /\ pc' = "loop"
    /\ UNCHANGED <<args, upload_table, hresulttable, inflight, raised,
                   returned, queries, results, netCalls, projections>>

\* line 122
Return ==
    /\ pc = "loop"
    /\ m >= Len(heasarc_cat)
    /\ returned' = <<df_lc>>
    /\ pc' = "done"
    /\ UNCHANGED <<args, upload_table, df_lc, m, hresulttable, inflight,
                   raised, hist>>

Next ==
    \/ Project
    \/ NewAccumulator
    \/ RegsearchOk
    \/ RegsearchFail
    \/ IssueQuery
    \/ CutoffIndexError
    \/ QueryReturn
    \/ QueryFail
    \/ ReshapeAppend
    \/ Return

Spec == Init /\ [][Next]_vars

\* ------------------------------------------------------------ vocabulary
RowSet(s) == {s[k] : k \in 1..Len(s)}

RowsOfBatches(bs) == UNION {RowSet(bs[k]) : k \in 1..Len(bs)}

RemoveAt(s, i) == [k \in 1..(Len(s) - 1) |-> IF k < i THEN s[k] ELSE s[k + 1]]

RECURSIVE FoldAppend(_, _)
FoldAppend(acc, bs) ==
    IF bs = << >> THEN acc ELSE FoldAppend(append(acc, Head(bs)), Tail(bs))

MatchingLengths == Len(heasarc_cat) = Len(max_error_radius)

\* ----------------------------------------------------------------- claims

\* C1: with a non-empty catalog list and a cutoff list of the same length,
\* every batch handed to append for index i carries band = heasarc_cat[i] in
\* every row, and a call whose queries all succeed has appended exactly one
\* batch per catalog (len(heasarc_cat) appends in total).
C1_OneBatchPerCatalog ==
    (Len(heasarc_cat) > 0 /\ MatchingLengths) =>
        /\ Len(appended) <= Len(heasarc_cat)
        /\ \A i \in 1..Len(appended) : \A j \in 1..Len(appended[i]) :
              appended[i][j].band = heasarc_cat[i]
        /\ pc = "done" => Len(appended) = Len(heasarc_cat)

C1_Witness ==
    /\ pc = "done"
    /\ MatchingLengths
    /\ Len(heasarc_cat) = 2
    /\ heasarc_cat[1] # heasarc_cat[2]
    /\ Len(appended) = 2
    /\ appended[1] # << >>
    /\ appended[2] # << >>

\* C2: when the two lists differ in length the call ends in a failure, no
\* remote call (registry lookup or catalog query) has been started and no
\* row has been appended.
C2_MismatchFailsBeforeNetwork ==
    ~MatchingLengths =>
        /\ netCalls = 0
        /\ pc # "done"
        /\ \A i \in 1..Len(appended) : appended[i] = << >>

\* C3: when the query for index i fails the failure leaves the function
\* (nothing is returned), no query past i is sent, no batch past i - 1 is
\* appended, and the accumulator holds exactly the rows of batches 0..i-1.
C3_FailureAbortsNoRollback ==
    (raised = "RemoteFailure" /\ queries # << >>) =>
        /\ pc = "failed"
        /\ returned = << >>
        /\ inflight = << >>
        /\ Len(queries) = m + 1
        /\ queries[Len(queries)].m = m
        /\ Len(appended) = m
        /\ RowSet(df_lc) = RowsOfBatches(appended)
        /\ \A i \in 1..Len(appended) : \A j \in 1..Len(appended[i]) :
              appended[i][j].band = heasarc_cat[i]

C3_Witness ==
    /\ raised = "RemoteFailure"
    /\ pc = "failed"
    /\ heasarc_cat = <<"CAT1", "CAT2">>
    /\ m = 1
    /\ Len(queries) = 2
    /\ Len(df_lc) = 2
    /\ \A k \in 1..Len(df_lc) : df_lc[k].band = "CAT1"

\* C4: a query that returns zero rows appends a batch of zero rows, raises
\* nothing, and the loop goes on: a call that returns has queried every
\* catalog, and what it returns equals the accumulator built from the other
\* catalogs' batches alone.
C4_EmptyResultContinues ==
    \A i \in 1..Len(results) :
        results[i] = << >> =>
            /\ i <= Len(appended) => appended[i] = << >>
            /\ (Len(results) = i /\ pc \in {"reshape", "loop"}) => raised = "none"
            /\ pc = "done" =>
                  /\ Len(queries) = Len(heasarc_cat)
                  /\ returned = <<FoldAppend(<< >>, RemoveAt(appended, i))>>

C4_Witness ==
    /\ pc = "done"
    /\ Len(results) = 2
    /\ results[1] = << >>
    /\ results[2] # << >>
    /\ returned # << << >> >>

\* C5: the query for index i carries the cutoff of index i, every hit it
\* returns has error_radius strictly below max_error_radius[i] (an entry at
\* exactly the cutoff is left out), and the batch appended for i is built
\* from those hits only.
C5_StrictCutoffSameIndex ==
    /\ \A i \in 1..Len(queries) :
          /\ queries[i].cat = heasarc_cat[i]
          /\ queries[i].cutoff = max_error_radius[i]
    /\ \A i \in 1..Len(results) : \A j \in 1..Len(results[i]) :
          results[i][j].error_radius < max_error_radius[i]
    /\ \A i \in 1..Len(appended) :
          /\ Len(appended[i]) = Len(results[i])
          /\ \A j \in 1..Len(appended[i]) :
                \A k \in 1..Len(Catalog(heasarc_cat[i])) :
                    Catalog(heasarc_cat[i])[k].error_radius >= max_error_radius[i]
                        => appended[i][j].time # Catalog(heasarc_cat[i])[k].time

C5_Witness ==
    /\ Len(appended) = 2
    /\ heasarc_cat = <<"CAT1", "CAT1">>
    /\ max_error_radius = <<2, 3>>
    /\ Len(appended[1]) = 2
    /\ Len(appended[2]) = 3

\* C6: no step removes or rewrites a row of the accumulator, and a call that
\* returns hands back the accumulator, holding exactly the rows of the
\* batches appended (it starts empty at line 88).
C6_AccumulatorOnlyGrows ==
    /\ [][RowSet(df_lc) \subseteq RowSet(df_lc')]_vars
    /\ [](pc = "done" =>
            /\ returned = <<df_lc>>
            /\ RowSet(df_lc) = RowsOfBatches(appended)
            /\ Len(appended) = Len(heasarc_cat))

C6_Witness ==
    /\ pc = "done"
    /\ Len(appended) = 2
    /\ heasarc_cat[1] = heasarc_cat[2]
    /\ appended[1] # << >>
    /\ appended[2] # << >>
    /\ Len(df_lc) >= 2

C8_SentinelRowPerHit ==
    \A i \in 1..Len(appended) :
        /\ Len(appended[i]) = Len(results[i])
        /\ \A j \in 1..Len(appended[i]) :
              /\ appended[i][j].flux = 1
              /\ appended[i][j].err = 1
              /\ appended[i][j].time = results[i][j].time
              /\ appended[i][j].object_id = results[i][j].object_id
              /\ appended[i][j].label = results[i][j].label

C8_Witness ==
    /\ Len(source_table) = 2
    /\ Len(appended) >= 1
    /\ heasarc_cat[1] = "CAT1"
    /\ Len(appended[1]) = 3
    /\ \A j \in 1..3 : appended[1][j].object_id = 1 /\ appended[1][j].label = "A"
    /\ {appended[1][j].time : j \in 1..3} = {100, 200, 300}
    /\ Len(df_lc) = 3

\* C9: queries are sent for index 0, 1, 2, ... in that order, at most one is
\* outstanding, query i + 1 is sent only after batch i was appended, and the
\* batches are appended in catalog-list order.
C9_SequentialQueries ==
    /\ Len(inflight) <= 1
    /\ \A k \in 1..Len(queries) : queries[k].m = k - 1
    /\ Len(appended) <= Len(queries)
    /\ Len(queries) <= Len(appended) + 1
    /\ inflight # << >> => Len(queries) = Len(appended) + 1
    /\ \A i \in 1..Len(appended) : \A j \in 1..Len(appended[i]) :
          appended[i][j].band = queries[i].cat

C9_Witness ==
    /\ Len(queries) = 2
    /\ Len(inflight) = 1
    /\ Len(appended) = 1
    /\ appended[1] # << >>

\* C10: the projection {object_id, label, ra, dec} is computed once, before
\* the first query; every query uploads that projection, row for row the
\* caller's table; no step changes the projection or the caller's table.
C10_ProjectionOnceReadOnly ==
    /\ [](/\ projections <= 1
          /\ queries # << >> => projections = 1
          /\ \A k \in 1..Len(queries) :
                /\ queries[k].upload = upload_table
                /\ Len(queries[k].upload) = Len(source_table)
                /\ \A j \in 1..Len(source_table) :
                      queries[k].upload[j] =
                          [object_id |-> source_table[j].object_id,
                           label |-> source_table[j].label,
                           ra |-> source_table[j].coord.ra,
                           dec |-> source_table[j].coord.dec])
    /\ [][/\ source_table' = source_table
          /\ pc # "start" => upload_table' = upload_table]_vars

C10_Witness ==
    /\ Len(queries) = 2
    /\ Len(source_table) = 2
    /\ pc = "done"
    /\ df_lc # << >>

====
